---------------------------- MODULE Spec2Model ----------------------------
(***************************************************************************)
(* A model of edit_photo_exif.py: the extraction of (uri, timestamp)       *)
(* records from the JSON shapes of a Facebook data export, the merge of a  *)
(* conversation's message files, the rewrite of a photo's EXIF             *)
(* DateTimeOriginal field, and the run of main that ties them together.    *)
(*                                                                         *)
(* A JSON object is a function whose domain is the set of keys present; a  *)
(* JSON list is a sequence; a JSON string is a string; a JSON number is an *)
(* integer.  A Python call either returns a value, [exc |-> "None", val    *)
(* |-> v], or raises, [exc |-> <the exception's class>].                   *)
(***************************************************************************)
EXTENDS Integers, Sequences, FiniteSets, TLC

VARIABLES
    pc,        \* the position of the operation being run
    arg,       \* the argument of the operation being run
    ret,       \* what the operation returned or raised (Pending before)
    export,    \* facebook_data/ as it is when the run starts
    images,    \* the image files under facebook_data/, as they are now
    log,       \* the directory listings, JSON loads, calls of
               \* modify_date_taken, piexif calls and the exception, in order
    \* the local variables of main and of merge_conversation
    message_dirs, dir_i,        \* the directories and the loop's position
    json_files, file_i,         \* the files of a directory and the position
    merged_data,
    all_message_photos, album_photos, uncategorized_photos, posts_photos,
    all_photos, photo_i         \* the records and the write loop's position

locals ==
    <<message_dirs, dir_i, json_files, file_i, merged_data, all_message_photos,
      album_photos, uncategorized_photos, posts_photos, all_photos, photo_i>>

vars == <<pc, arg, ret, export, images, log, locals>>

---------------------------------------------------------------------------
(* Python values and dict access.                                          *)

\* {} : the dict with no key
EmptyDict == [k \in {} |-> 0]

\* d.get(key, default)
Get(d, key, default) == IF key \in DOMAIN d THEN d[key] ELSE default

\* key in d
HasKey(d, key) == key \in DOMAIN d

\* a normal return of value v
Return(v) == [exc |-> "None", val |-> v]

\* an exception of class e leaving the function
Raise(e) == [exc |-> e]

\* no call has ended yet
Pending == [exc |-> "pending"]

\* the dicts with at most the key k, its value drawn from S
Optional(k, S) == {EmptyDict} \cup {[x \in {k} |-> v] : v \in S}

\* the sequences over S of length at most n
SeqsUpTo(S, n) == UNION {[1..m -> S] : m \in 0..n}

\* d[key] = value
SetItem(d, key, value) ==
    [k \in DOMAIN d \cup {key} |-> IF k = key THEN value ELSE d[k]]

\* s.endswith(suffix)
EndsWith(s, suffix) ==
    /\ Len(s) >= Len(suffix)
    /\ SubSeq(s, Len(s) - Len(suffix) + 1, Len(s)) = suffix

\* the local variables of main before main sets them
NoLocals ==
    /\ message_dirs = <<>> /\ dir_i = 1
    /\ json_files = <<>> /\ file_i = 1
    /\ merged_data = EmptyDict
    /\ all_message_photos = <<>> /\ album_photos = <<>>
    /\ uncategorized_photos = <<>> /\ posts_photos = <<>>
    /\ all_photos = <<>> /\ photo_i = 1

\* the state of the variables an operation run on its own does not use
NoExport ==
    /\ export = EmptyDict
    /\ images = EmptyDict
    /\ log = <<>>
    /\ NoLocals

---------------------------------------------------------------------------
(* Photo.from_json_structure                                               *)

\* The mutant of ExifBlock: the last block of exif_data is consulted.
ExifBlockLast(exif_data) == exif_data[Len(exif_data)]

\* .get("exif_data", [{}])[0] : the first block of the list; the subscript
\* raises IndexError on an empty list, which the caller tests with Len.
ExifBlock(exif_data) == exif_data[1]

\* Photo.from_json_structure(structure): structure["uri"] is read first
\* (KeyError when absent), then the optional path media_metadata ->
\* photo_metadata -> exif_data, each .get with a default, then [0] of the
\* list (IndexError when the list is empty), then .get("taken_timestamp"),
\* which is None when the key is absent; on None, structure
\* ["creation_timestamp"] (KeyError when absent).
from_json_structure(structure) ==
    IF ~HasKey(structure, "uri") THEN Raise("KeyError")
    ELSE LET uri == structure["uri"]
             exif_data == Get(Get(Get(structure, "media_metadata", EmptyDict),
                                      "photo_metadata", EmptyDict),
                                  "exif_data", <<EmptyDict>>)
         IN  IF Len(exif_data) = 0 THEN Raise("IndexError")
             ELSE IF HasKey(ExifBlock(exif_data), "taken_timestamp")
                  THEN Return([uri |-> uri,
                               timestamp |-> ExifBlock(exif_data)["taken_timestamp"]])
                  ELSE IF HasKey(structure, "creation_timestamp")
                       THEN Return([uri |-> uri,
                                    timestamp |-> structure["creation_timestamp"]])
                       ELSE Raise("KeyError")

---------------------------------------------------------------------------
(* extract_photos_from_list, extract_photos_from_posts,                    *)
(* extract_photos_from_messages: each loop appends the record of every     *)
(* photo fragment it meets to `photos`; an exception raised by             *)
(* from_json_structure leaves the loop and the function.                   *)

\* for photo in photos_data: photos.append(Photo.from_json_structure(photo))
RECURSIVE photos_loop(_, _)
photos_loop(photos_data, photos) ==
    IF Len(photos_data) = 0 THEN Return(photos)
    ELSE LET p == from_json_structure(Head(photos_data))
         IN  IF p.exc # "None" THEN p
             ELSE photos_loop(Tail(photos_data), Append(photos, p.val))

extract_photos_from_list(photos_data) == photos_loop(photos_data, <<>>)

\* for entry in data_section: if "media" in entry: photos.append(...)
RECURSIVE entries_loop(_, _)
entries_loop(data_section, photos) ==
    IF Len(data_section) = 0 THEN Return(photos)
    ELSE LET entry == Head(data_section)
         IN  IF HasKey(entry, "media")
             THEN LET p == from_json_structure(entry["media"])
                  IN  IF p.exc # "None" THEN p
                      ELSE entries_loop(Tail(data_section), Append(photos, p.val))
             ELSE entries_loop(Tail(data_section), photos)

\* for photo in data: photo.get("attachments", [{}])[0].get("data", [{}]):
\* the first attachment of the post only; [0] raises IndexError when the
\* post's attachments list is empty.
RECURSIVE posts_loop(_, _)
posts_loop(data, photos) ==
    IF Len(data) = 0 THEN Return(photos)
    ELSE LET attachments == Get(Head(data), "attachments", <<EmptyDict>>)
         IN  IF Len(attachments) = 0 THEN Raise("IndexError")
             ELSE LET data_section == Get(attachments[1], "data", <<EmptyDict>>)
                      r == entries_loop(data_section, photos)
                  IN  IF r.exc # "None" THEN r
                      ELSE posts_loop(Tail(data), r.val)

extract_photos_from_posts(data) == posts_loop(data, <<>>)

\* for message in messages: if "photos" in message: for photo in
\* message["photos"]: photos.append(Photo.from_json_structure(photo))
RECURSIVE messages_loop(_, _)
messages_loop(messages, photos) ==
    IF Len(messages) = 0 THEN Return(photos)
    ELSE LET message == Head(messages)
         IN  IF HasKey(message, "photos")
             THEN LET r == photos_loop(message["photos"], photos)
                  IN  IF r.exc # "None" THEN r
                      ELSE messages_loop(Tail(messages), r.val)
             ELSE messages_loop(Tail(messages), photos)

extract_photos_from_messages(messages) == messages_loop(messages, <<>>)

---------------------------------------------------------------------------
(* The photo fragments from_json_structure is run on.                      *)

\* the longest exif_data list
MaxExifBlocks == 2

Uris == {"photos/a.jpg"}
CreationStamps == {1000, 2000}
TakenStamps == {2000, 3000}

ExifBlocks ==
    {EmptyDict, [iso |-> 100]} \cup {[taken_timestamp |-> t] : t \in TakenStamps}

MediaMetadatas ==
    {EmptyDict, [photo_metadata |-> EmptyDict]}
        \cup {[photo_metadata |-> [exif_data |-> l]] :
                 l \in SeqsUpTo(ExifBlocks, MaxExifBlocks)}

Fragments ==
    {u @@ c @@ m : u \in Optional("uri", Uris),
                   c \in Optional("creation_timestamp", CreationStamps),
                   m \in Optional("media_metadata", MediaMetadatas)}

InitPhoto ==
    /\ pc = "from_json_structure"
    /\ arg \in Fragments
    /\ ret = Pending
    /\ NoExport

FromJsonStructure ==
    /\ pc = "from_json_structure"
    /\ ret' = from_json_structure(arg)
    /\ pc' = "done"
    /\ UNCHANGED <<arg, export, images, log, locals>>

NextPhoto == FromJsonStructure

SpecPhoto == InitPhoto /\ [][NextPhoto]_vars

---------------------------------------------------------------------------
(* Claims about Photo.from_json_structure, under SpecPhoto.                *)

\* the fragment has media_metadata.photo_metadata.exif_data with a first
\* block that holds taken_timestamp
HasFirstTaken(f) ==
    /\ "media_metadata" \in DOMAIN f
    /\ "photo_metadata" \in DOMAIN f["media_metadata"]
    /\ "exif_data" \in DOMAIN f["media_metadata"]["photo_metadata"]
    /\ Len(f["media_metadata"]["photo_metadata"]["exif_data"]) >= 1
    /\ "taken_timestamp"
           \in DOMAIN Head(f["media_metadata"]["photo_metadata"]["exif_data"])

FirstTaken(f) ==
    Head(f["media_metadata"]["photo_metadata"]["exif_data"])["taken_timestamp"]

\* C1: a fragment with a uri, a creation_timestamp and a taken_timestamp in
\* the first exif block yields the record (uri, that taken_timestamp),
\* whatever the creation_timestamp and the later blocks hold.
C1_TakenTimestampWins ==
    (pc = "done" /\ "uri" \in DOMAIN arg /\ "creation_timestamp" \in DOMAIN arg
        /\ HasFirstTaken(arg))
    => ret = [exc |-> "None",
              val |-> [uri |-> arg["uri"], timestamp |-> FirstTaken(arg)]]

\* C1's case: the taken timestamp of the first block differs from the
\* creation timestamp and from the taken timestamp of a second block.
C1_Witness ==
    /\ pc = "done"
    /\ "uri" \in DOMAIN arg /\ "creation_timestamp" \in DOMAIN arg
    /\ HasFirstTaken(arg)
    /\ FirstTaken(arg) # arg["creation_timestamp"]
    /\ LET exif == arg["media_metadata"]["photo_metadata"]["exif_data"]
       IN  /\ Len(exif) = 2
           /\ "taken_timestamp" \in DOMAIN exif[2]
           /\ exif[2]["taken_timestamp"] # FirstTaken(arg)
    /\ ret.exc = "None"

\* C2: a fragment with a uri and a creation_timestamp and no taken
\* timestamp yields the record (uri, creation_timestamp), at whatever level
\* the optional path stops, an exif_data list with no block included.
C2_CreationFallback ==
    (pc = "done" /\ "uri" \in DOMAIN arg /\ "creation_timestamp" \in DOMAIN arg
        /\ ~HasFirstTaken(arg))
    => ret = [exc |-> "None",
              val |-> [uri |-> arg["uri"],
                       timestamp |-> arg["creation_timestamp"]]]

\* C6: the call fails exactly when the uri is absent or both timestamps
\* are (any exception is counted as the failure here); otherwise it returns
\* one record with a timestamp.
C6_FailsOnlyOnMissingField ==
    pc = "done" =>
        IF \/ "uri" \notin DOMAIN arg
           \/ (~HasFirstTaken(arg) /\ "creation_timestamp" \notin DOMAIN arg)
        THEN ret.exc # "None"
        ELSE /\ ret.exc = "None"
             /\ ret.val.uri = arg["uri"]
             /\ ret.val.timestamp \in Int

---------------------------------------------------------------------------
(* The post lists extract_photos_from_posts is run on.                     *)

\* the most posts, attachments of a post, data entries of an attachment
MaxPosts == 2
MaxAttachments == 2
MaxData == 2

PhotoA == [uri |-> "photos/a.jpg", creation_timestamp |-> 1000]
PhotoB ==
    [uri |-> "photos/b.png", creation_timestamp |-> 2000,
     media_metadata |-> [photo_metadata |-> [exif_data |-> <<[taken_timestamp |-> 3000]>>]]]
\* a fragment with no uri
PhotoNoUri == [creation_timestamp |-> 1000]

WellFormed(f) == f \in {PhotoA, PhotoB}

DataEntries == Optional("media", {PhotoA, PhotoB, PhotoNoUri})
Attachments == Optional("data", SeqsUpTo(DataEntries, MaxData))
Posts == Optional("attachments", SeqsUpTo(Attachments, MaxAttachments))
PostLists == SeqsUpTo(Posts, MaxPosts)

InitPosts ==
    /\ pc = "extract_photos_from_posts"
    /\ arg \in PostLists
    /\ ret = Pending
    /\ NoExport

ExtractPhotosFromPosts ==
    /\ pc = "extract_photos_from_posts"
    /\ ret' = extract_photos_from_posts(arg)
    /\ pc' = "done"
    /\ UNCHANGED <<arg, export, images, log, locals>>

NextPosts == ExtractPhotosFromPosts

SpecPosts == InitPosts /\ [][NextPosts]_vars

---------------------------------------------------------------------------
(* Claims about extract_photos_from_posts, under SpecPosts.                *)

RECURSIVE Flatten(_)
Flatten(ss) == IF Len(ss) = 0 THEN <<>> ELSE Head(ss) \o Flatten(Tail(ss))

HasMedia(entry) == "media" \in DOMAIN entry

\* the photo fragments of one attachment, of one post, of a post list: the
\* "media" of every data entry that has one, in input order
MediaOfAttachment(a) ==
    IF "data" \in DOMAIN a
    THEN LET with == SelectSeq(a["data"], HasMedia)
         IN  [i \in 1..Len(with) |-> with[i]["media"]]
    ELSE <<>>

MediaOfPost(post) ==
    IF "attachments" \in DOMAIN post
    THEN Flatten([i \in 1..Len(post["attachments"]) |->
                     MediaOfAttachment(post["attachments"][i])])
    ELSE <<>>

AllMedia(posts) == Flatten([i \in 1..Len(posts) |-> MediaOfPost(posts[i])])

AllWellFormed(posts) ==
    \A i \in 1..Len(AllMedia(posts)) : WellFormed(AllMedia(posts)[i])

NoEmptyAttachments(posts) ==
    \A i \in 1..Len(posts) :
        "attachments" \in DOMAIN posts[i] => Len(posts[i]["attachments"]) > 0

\* C3: the result holds one record for each data entry with a "media", over
\* every attachment of every post, in input order (stated for post lists
\* whose fragments are well formed and whose attachments lists, when
\* present, are not empty).
C3_EveryAttachment ==
    (pc = "done" /\ AllWellFormed(arg) /\ NoEmptyAttachments(arg))
    => /\ ret.exc = "None"
       /\ ret.val = [i \in 1..Len(AllMedia(arg)) |->
                        from_json_structure(AllMedia(arg)[i]).val]

\* C4: the call never fails on content that carries no photo, an empty
\* attachments list included, and every record it returns comes from a
\* data entry with a "media" (stated for post lists whose fragments are
\* well formed).
C4_NoPhotoContentSkipped ==
    (pc = "done" /\ AllWellFormed(arg))
    => /\ ret.exc = "None"
       /\ Len(ret.val) <= Len(AllMedia(arg))
       /\ \A i \in 1..Len(ret.val) :
              \E j \in 1..Len(AllMedia(arg)) :
                  ret.val[i] = from_json_structure(AllMedia(arg)[j]).val

---------------------------------------------------------------------------
(* datetime.fromtimestamp(t, UTC), strftime and modify_date_taken.         *)

\* the civil date of day number `days` (days since 1970-01-01)
CivilFromDays(days) ==
    LET z == days + 719468
        era == z \div 146097
        doe == z - era * 146097
        yoe == (doe - doe \div 1460 + doe \div 36524 - doe \div 146096) \div 365
        doy == doe - (365 * yoe + yoe \div 4 - yoe \div 100)
        mp == (5 * doy + 2) \div 153
        m == IF mp < 10 THEN mp + 3 ELSE mp - 9
    IN  [year |-> yoe + era * 400 + (IF m <= 2 THEN 1 ELSE 0),
         month |-> m,
         day |-> doy - (153 * mp + 2) \div 5 + 1]

\* datetime.datetime.fromtimestamp(timestamp, datetime.UTC), timestamp >= 0
fromtimestamp(timestamp) ==
    LET date == CivilFromDays(timestamp \div 86400)
        secs == timestamp % 86400
    IN  [year |-> date.year, month |-> date.month, day |-> date.day,
         hour |-> secs \div 3600, minute |-> (secs % 3600) \div 60,
         second |-> secs % 60]

Digit(d) == SubSeq("0123456789", d + 1, d + 1)
Pad2(n) == Digit(n \div 10) \o Digit(n % 10)
Pad4(n) == Pad2(n \div 100) \o Pad2(n % 100)

\* new_date.strftime("%Y:%m:%d %H:%M:%S")
strftime(d) ==
    Pad4(d.year) \o ":" \o Pad2(d.month) \o ":" \o Pad2(d.day) \o " "
        \o Pad2(d.hour) \o ":" \o Pad2(d.minute) \o ":" \o Pad2(d.second)

\* An image file: its status (ok: a JPEG that can be read and written;
\* readonly: a JPEG that cannot be written; corrupt: no image data piexif
\* can decode; missing: no file) and the fields of its Exif IFD.
MissingFile == [status |-> "missing", exif |-> EmptyDict]

FileAt(files, path) == IF path \in DOMAIN files THEN files[path] ELSE MissingFile

\* The mutant of Eligible: any path that names the jpg format passes,
\* whatever the case of the extension.
EligibleAnyCase(photo_path) ==
    EndsWith(photo_path, ".jpg") \/ EndsWith(photo_path, ".JPG")

\* not photo_path.endswith(".jpg") is the early return
Eligible(photo_path) == EndsWith(photo_path, ".jpg")

\* modify_date_taken(photo_path, new_date) run on `file`: what it raises,
\* the file afterwards and the piexif calls made.  piexif.load raises on a
\* missing file and on data it cannot decode; piexif.insert raises on a
\* file it cannot write; a file is changed by a successful insert only.
modify_date_taken(photo_path, new_date, file) ==
    IF ~Eligible(photo_path)
    THEN [exc |-> "None", file |-> file, io |-> <<>>]
    ELSE LET load == [op |-> "piexif.load", path |-> photo_path]
             insert == [op |-> "piexif.insert", path |-> photo_path]
             formatted_date == strftime(new_date)
             exif_dict == SetItem(file.exif, "DateTimeOriginal", formatted_date)
         IN  CASE file.status = "missing" ->
                    [exc |-> "FileNotFoundError", file |-> file, io |-> <<load>>]
               [] file.status = "corrupt" ->
                    [exc |-> "InvalidImageDataError", file |-> file, io |-> <<load>>]
               [] file.status = "readonly" ->
                    [exc |-> "PermissionError", file |-> file,
                     io |-> <<load, insert>>]
               [] OTHER ->
                    [exc |-> "None", file |-> [file EXCEPT !.exif = exif_dict],
                     io |-> <<load, insert>>]

---------------------------------------------------------------------------
(* modify_date_taken run on its own: one path, one date, one file.         *)

WriterPaths ==
    {"photos/a.jpg", "photos/b.png", "photos/c.JPG", "photos/d.jpeg",
     "photos/jpg", "photos/e.jpg.bak"}
WriterStamps == {0, 1000, 1700000000}
FileStatuses == {"ok", "readonly", "corrupt", "missing"}
ExifFields ==
    {EmptyDict, [ISOSpeedRatings |-> "100"],
     [ISOSpeedRatings |-> "100", DateTimeOriginal |-> "2001:02:03 04:05:06"]}
ImageFiles ==
    {MissingFile}
        \cup [status : FileStatuses \ {"missing"}, exif : ExifFields]

InitWriter ==
    /\ pc = "modify_date_taken"
    /\ arg \in [photo_path : WriterPaths, timestamp : WriterStamps]
    /\ ret = Pending
    /\ \E file \in ImageFiles :
           /\ export = [images |-> [p \in {arg.photo_path} |-> file]]
           /\ images = export.images
    /\ log = <<>>
    /\ NoLocals

ModifyDateTaken ==
    /\ pc = "modify_date_taken"
    /\ LET r == modify_date_taken(arg.photo_path, fromtimestamp(arg.timestamp),
                                  FileAt(images, arg.photo_path))
       IN  /\ ret' = [exc |-> r.exc]
           /\ images' = [images EXCEPT ![arg.photo_path] = r.file]
           /\ log' = log \o r.io
    /\ pc' = "done"
    /\ UNCHANGED <<arg, export, locals>>

NextWriter == ModifyDateTaken

SpecWriter == InitWriter /\ [][NextWriter]_vars

\* C7: for a path that does not end in ".jpg" the call returns without
\* raising, makes no piexif call and leaves the file as it was, whatever
\* the file's state; a piexif call is made only for a path ending in ".jpg".
C7_OnlyJpgTouched ==
    pc = "done" =>
        /\ arg.photo_path # "photos/a.jpg"
               => (ret.exc = "None" /\ log = <<>> /\ images = export.images)
        /\ log # <<>> => arg.photo_path = "photos/a.jpg"

\* C7's case: a path with another extension whose file is missing, and one
\* that names jpg in upper case whose file cannot be decoded.
C7_Witness ==
    /\ pc = "done"
    /\ arg.photo_path \in {"photos/b.png", "photos/c.JPG"}
    /\ images[arg.photo_path].status \in {"missing", "corrupt"}
    /\ ret.exc = "None"

\* the rendering of 1700000000 and the rewrite of an eligible file
WriterRendering ==
    (pc = "done" /\ arg.photo_path = "photos/a.jpg" /\ arg.timestamp = 1700000000
        /\ export.images[arg.photo_path].status = "ok")
    => images[arg.photo_path].exif["DateTimeOriginal"] = "2023:11:14 22:13:20"

---------------------------------------------------------------------------
(* The paths of the export, json_files.sort() and merge_conversation.      *)

URI_ROOT == "facebook_data/"
POSTS_DIR == "facebook_data/your_activity_across_facebook/posts"
ALBUM_DIR == POSTS_DIR \o "/album"
POSTS_AND_CHECKINS ==
    "facebook_data/your_activity_across_facebook/posts/your_posts__check_ins__photos_and_videos_1.json"
UNCATEGORIZED_PHOTOS ==
    "facebook_data/your_activity_across_facebook/posts/your_uncategorized_photos.json"
MESSAGES_DIR == "facebook_data/your_activity_across_facebook/messages"
INBOX_DIR == MESSAGES_DIR \o "/inbox"
ARCHIVED_DIR == MESSAGES_DIR \o "/archived_threads"

\* the characters of the file names, in code point order
OrderedChars ==
    "-./0123456789ABCDEFGHIJKLMNOPQRSTUVWXYZ_abcdefghijklmnopqrstuvwxyz"

Ord(c) == CHOOSE i \in 1..Len(OrderedChars) : SubSeq(OrderedChars, i, i) = c

\* the first position where a and b differ, from position i on
RECURSIVE FirstDifference(_, _, _)
FirstDifference(a, b, i) ==
    IF i > Len(a) \/ i > Len(b) THEN i
    ELSE IF SubSeq(a, i, i) = SubSeq(b, i, i) THEN FirstDifference(a, b, i + 1)
         ELSE i

\* a < b, as Python compares two str: by the first position where they
\* differ, a proper prefix being the smaller
StrLess(a, b) ==
    LET k == FirstDifference(a, b, 1)
    IN  IF k > Len(a) THEN k <= Len(b)
        ELSE /\ k <= Len(b)
             /\ Ord(SubSeq(a, k, k)) < Ord(SubSeq(b, k, k))

\* json_files.sort(): the names of a directory (distinct) in ascending order
RECURSIVE Sorted(_)
Sorted(names) ==
    IF names = {} THEN <<>>
    ELSE LET least == CHOOSE x \in names : \A y \in names \ {x} : StrLess(x, y)
         IN  <<least>> \o Sorted(names \ {least})

\* [f for f in os.listdir(directory) if f.endswith(".json")], as a set
JsonNames(files) == {f \in DOMAIN files : EndsWith(f, ".json")}

\* The mutant of merge_step: every file's content replaces merged_data.
merge_step_replace(index, merged, data) == Return(data)

\* one pass of merge_conversation's loop: the first file's content is
\* kept whole; the "messages" of a later one are appended to
\* merged_data["messages"] (KeyError when either has no "messages")
merge_step(index, merged, data) ==
    IF index = 0 THEN Return(data)
    ELSE IF ~HasKey(merged, "messages") \/ ~HasKey(data, "messages")
         THEN Raise("KeyError")
         ELSE Return(SetItem(merged, "messages",
                             merged["messages"] \o data["messages"]))

---------------------------------------------------------------------------
(* main, one action per step.  An exception leaves main: pc = "aborted".   *)

Event(op, path) == [op |-> op, path |-> path]

\* an exception of class e propagates out of main, after `events`
Abort(e, events) ==
    /\ pc' = "aborted"
    /\ ret' = Raise(e)
    /\ log' = log \o events \o <<[op |-> "raise", exc |-> e]>>

\* the orders in which a directory scan may yield the names of a set
Orders(names) ==
    {o \in [1..Cardinality(names) -> names] :
        \A i, j \in 1..Cardinality(names) : i # j => o[i] # o[j]}

\* s.startswith(prefix)
StartsWith(s, prefix) ==
    /\ Len(s) >= Len(prefix)
    /\ SubSeq(s, 1, Len(prefix)) = prefix

\* the paths of the directories os.scandir(top) yields
DirsUnder(top) == {d \in DOMAIN export.dirs : StartsWith(d, top \o "/")}

\* get_all_message_dirs(): the directories under INBOX_DIR, then those
\* under ARCHIVED_DIR, each in the order os.scandir yields them
GetAllMessageDirs ==
    /\ pc = "get_all_message_dirs"
    /\ \E inbox \in Orders(DirsUnder(INBOX_DIR)),
          archived \in Orders(DirsUnder(ARCHIVED_DIR)) :
           message_dirs' = inbox \o archived
    /\ dir_i' = 1
    /\ log' = log \o <<Event("listdir", INBOX_DIR), Event("listdir", ARCHIVED_DIR)>>
    /\ pc' = IF Len(message_dirs') = 0 THEN "get_photos_from_album"
             ELSE "merge_conversation"
    /\ UNCHANGED <<arg, ret, export, images, json_files, file_i, merged_data,
                   all_message_photos, album_photos, uncategorized_photos,
                   posts_photos, all_photos, photo_i>>

\* merge_conversation(message_dir), to the loop: the listing and the sort
ListConversation ==
    /\ pc = "merge_conversation"
    /\ json_files' = Sorted(JsonNames(export.dirs[message_dirs[dir_i]]))
    /\ merged_data' = EmptyDict
    /\ file_i' = 1
    /\ log' = Append(log, Event("listdir", message_dirs[dir_i]))
    /\ pc' = IF Len(json_files') = 0 THEN "extract_photos_from_messages"
             ELSE "merge_load"
    /\ UNCHANGED <<arg, ret, export, images, message_dirs, dir_i,
                   all_message_photos, album_photos, uncategorized_photos,
                   posts_photos, all_photos, photo_i>>

\* one pass of merge_conversation's loop: json.load of the file, then the
\* merge
LoadConversationFile ==
    /\ pc = "merge_load"
    /\ LET file_name == json_files[file_i]
           data == export.dirs[message_dirs[dir_i]][file_name]
           load == Event("json.load", message_dirs[dir_i] \o "/" \o file_name)
           r == merge_step(file_i - 1, merged_data, data)
       IN  IF r.exc # "None"
           THEN /\ Abort(r.exc, <<load>>)
                /\ UNCHANGED <<merged_data, file_i>>
           ELSE /\ merged_data' = r.val
                /\ file_i' = file_i + 1
                /\ log' = Append(log, load)
                /\ pc' = IF file_i = Len(json_files)
                         THEN "extract_photos_from_messages" ELSE "merge_load"
                /\ UNCHANGED ret
    /\ UNCHANGED <<arg, export, images, message_dirs, dir_i, json_files,
                   all_message_photos, album_photos, uncategorized_photos,
                   posts_photos, all_photos, photo_i>>

\* extract_photos_from_messages(conversation["messages"]) and the extend of
\* all_message_photos; then the next directory
ExtractConversation ==
    /\ pc = "extract_photos_from_messages"
    /\ LET r == IF HasKey(merged_data, "messages")
                THEN extract_photos_from_messages(merged_data["messages"])
                ELSE Raise("KeyError")
       IN  IF r.exc # "None"
           THEN /\ Abort(r.exc, <<>>)
                /\ UNCHANGED <<all_message_photos, dir_i>>
           ELSE /\ all_message_photos' = all_message_photos \o r.val
                /\ dir_i' = dir_i + 1
                /\ pc' = IF dir_i = Len(message_dirs) THEN "get_photos_from_album"
                         ELSE "merge_conversation"
                /\ UNCHANGED <<ret, log>>
    /\ UNCHANGED <<arg, export, images, message_dirs, json_files, file_i,
                   merged_data, album_photos, uncategorized_photos, posts_photos,
                   all_photos, photo_i>>

\* get_photos_from_album(ALBUM_DIR), to the loop: the listing, in the order
\* os.listdir yields the names (it is not sorted)
ListAlbum ==
    /\ pc = "get_photos_from_album"
    /\ json_files' \in Orders(JsonNames(export.album))
    /\ file_i' = 1
    /\ album_photos' = <<>>
    /\ log' = Append(log, Event("listdir", ALBUM_DIR))
    /\ pc' = IF Len(json_files') = 0 THEN "read_uncategorized" ELSE "album_load"
    /\ UNCHANGED <<arg, ret, export, images, message_dirs, dir_i, merged_data,
                   all_message_photos, uncategorized_photos, posts_photos,
                   all_photos, photo_i>>

\* one pass of get_photos_from_album's loop: json.load of the file, then
\* extract_photos_from_list(data["photos"])
LoadAlbumFile ==
    /\ pc = "album_load"
    /\ LET file_name == json_files[file_i]
           data == export.album[file_name]
           load == Event("json.load", ALBUM_DIR \o "/" \o file_name)
           r == IF HasKey(data, "photos")
                THEN extract_photos_from_list(data["photos"])
                ELSE Raise("KeyError")
       IN  IF r.exc # "None"
           THEN /\ Abort(r.exc, <<load>>)
                /\ UNCHANGED <<album_photos, file_i>>
           ELSE /\ album_photos' = album_photos \o r.val
                /\ file_i' = file_i + 1
                /\ log' = Append(log, load)
                /\ pc' = IF file_i = Len(json_files) THEN "read_uncategorized"
                         ELSE "album_load"
                /\ UNCHANGED ret
    /\ UNCHANGED <<arg, export, images, message_dirs, dir_i, json_files,
                   merged_data, all_message_photos, uncategorized_photos,
                   posts_photos, all_photos, photo_i>>

\* read_json(filename): open raises when the file is missing
read_json(file) ==
    IF HasKey(file, "json") THEN Return(file["json"])
    ELSE Raise("FileNotFoundError")

\* The mutant of ReadUncategorized: the first uncategorized photo is
\* written as soon as it is extracted, before the posts are read.
ReadUncategorizedEager ==
    /\ pc = "read_uncategorized"
    /\ LET uncategorized == read_json(export.uncategorized)
           load == IF uncategorized.exc = "None"
                   THEN <<Event("json.load", UNCATEGORIZED_PHOTOS)>> ELSE <<>>
           r == IF uncategorized.exc # "None" THEN uncategorized
                ELSE IF ~HasKey(uncategorized.val, "other_photos_v2")
                     THEN Raise("KeyError")
                     ELSE extract_photos_from_list(
                              uncategorized.val["other_photos_v2"])
       IN  IF r.exc # "None"
           THEN /\ Abort(r.exc, load)
                /\ UNCHANGED uncategorized_photos
           ELSE /\ uncategorized_photos' = r.val
                /\ log' = log \o load
                       \o (IF Len(r.val) = 0 THEN <<>>
                           ELSE <<[op |-> "modify_date_taken",
                                   path |-> URI_ROOT \o r.val[1].uri,
                                   new_date |-> fromtimestamp(r.val[1].timestamp)]>>)
                /\ pc' = "read_posts"
                /\ UNCHANGED ret
    /\ UNCHANGED <<arg, export, images, message_dirs, dir_i, json_files, file_i,
                   merged_data, all_message_photos, album_photos, posts_photos,
                   all_photos, photo_i>>

\* read_json(UNCATEGORIZED_PHOTOS)["other_photos_v2"], then
\* extract_photos_from_list
ReadUncategorized ==
    /\ pc = "read_uncategorized"
    /\ LET uncategorized == read_json(export.uncategorized)
           load == IF uncategorized.exc = "None"
                   THEN <<Event("json.load", UNCATEGORIZED_PHOTOS)>> ELSE <<>>
           r == IF uncategorized.exc # "None" THEN uncategorized
                ELSE IF ~HasKey(uncategorized.val, "other_photos_v2")
                     THEN Raise("KeyError")
                     ELSE extract_photos_from_list(
                              uncategorized.val["other_photos_v2"])
       IN  IF r.exc # "None"
           THEN /\ Abort(r.exc, load)
                /\ UNCHANGED uncategorized_photos
           ELSE /\ uncategorized_photos' = r.val
                /\ log' = log \o load
                /\ pc' = "read_posts"
                /\ UNCHANGED ret
    /\ UNCHANGED <<arg, export, images, message_dirs, dir_i, json_files, file_i,
                   merged_data, all_message_photos, album_photos, posts_photos,
                   all_photos, photo_i>>

\* The mutant of Concatenate: the album's records come first.
ConcatenateAlbumFirst(message, album, uncategorized, posts) ==
    album \o message \o uncategorized \o posts

\* all_message_photos + album_photos + uncategorized_photos + posts_photos
Concatenate(message, album, uncategorized, posts) ==
    message \o album \o uncategorized \o posts

\* read_json(POSTS_AND_CHECKINS), extract_photos_from_posts, and the merge
\* of the four lists into all_photos
ReadPosts ==
    /\ pc = "read_posts"
    /\ LET posts == read_json(export.posts)
           load == IF posts.exc = "None"
                   THEN <<Event("json.load", POSTS_AND_CHECKINS)>> ELSE <<>>
           r == IF posts.exc # "None" THEN posts
                ELSE extract_photos_from_posts(posts.val)
       IN  IF r.exc # "None"
           THEN /\ Abort(r.exc, load)
                /\ UNCHANGED <<posts_photos, all_photos>>
           ELSE /\ posts_photos' = r.val
                /\ all_photos' = Concatenate(all_message_photos, album_photos,
                                             uncategorized_photos, r.val)
                /\ log' = log \o load
                /\ pc' = IF Len(all_photos') = 0 THEN "done" ELSE "write"
                /\ UNCHANGED ret
    /\ photo_i' = 1
    /\ UNCHANGED <<arg, export, images, message_dirs, dir_i, json_files, file_i,
                   merged_data, all_message_photos, album_photos,
                   uncategorized_photos>>

\* The mutant of WritePhoto: a failed write is skipped and the loop goes on
\* with the next record.
WritePhotoSkipFailed ==
    /\ pc = "write"
    /\ LET photo == all_photos[photo_i]
           filepath == URI_ROOT \o photo.uri
           timestamp == fromtimestamp(photo.timestamp)
           call == [op |-> "modify_date_taken", path |-> filepath,
                    new_date |-> timestamp]
           r == modify_date_taken(filepath, timestamp, FileAt(images, filepath))
       IN  /\ images' = IF filepath \in DOMAIN images
                        THEN [images EXCEPT ![filepath] = r.file]
                        ELSE images
           /\ log' = log \o <<call>> \o r.io
                  \o (IF r.exc # "None" THEN <<[op |-> "raise", exc |-> r.exc]>>
                      ELSE <<>>)
           /\ photo_i' = photo_i + 1
           /\ pc' = IF photo_i = Len(all_photos) THEN "done" ELSE "write"
           /\ UNCHANGED ret
    /\ UNCHANGED <<arg, export, message_dirs, dir_i, json_files, file_i,
                   merged_data, all_message_photos, album_photos,
                   uncategorized_photos, posts_photos, all_photos>>

\* one pass of main's last loop: the path, the datetime, and the call of
\* modify_date_taken
WritePhoto ==
    /\ pc = "write"
    /\ LET photo == all_photos[photo_i]
           filepath == URI_ROOT \o photo.uri
           timestamp == fromtimestamp(photo.timestamp)
           call == [op |-> "modify_date_taken", path |-> filepath,
                    new_date |-> timestamp]
           r == modify_date_taken(filepath, timestamp, FileAt(images, filepath))
       IN  /\ images' = IF filepath \in DOMAIN images
                        THEN [images EXCEPT ![filepath] = r.file]
                        ELSE images
           /\ IF r.exc # "None"
              THEN /\ Abort(r.exc, <<call>> \o r.io)
                   /\ UNCHANGED photo_i
              ELSE /\ log' = log \o <<call>> \o r.io
                   /\ photo_i' = photo_i + 1
                   /\ pc' = IF photo_i = Len(all_photos) THEN "done" ELSE "write"
                   /\ UNCHANGED ret
    /\ UNCHANGED <<arg, export, message_dirs, dir_i, json_files, file_i,
                   merged_data, all_message_photos, album_photos,
                   uncategorized_photos, posts_photos, all_photos>>

---------------------------------------------------------------------------
(* merge_conversation run on its own, on one conversation directory.       *)

\* the longest "messages" list of one file
MaxMessages == 2

PhotoC == [uri |-> "photos/c.jpg", creation_timestamp |-> 1700000000]

TextMessage == [content |-> "hi"]
PhotoMessage == [photos |-> <<PhotoA>>]

\* the content of a message file: "messages" and a title, each optional
MessageDocs ==
    {t @@ m : t \in Optional("title", {"t1"}),
              m \in Optional("messages",
                             SeqsUpTo({TextMessage, PhotoMessage}, MaxMessages))}

ConversationDirs ==
    {a @@ b @@ c @@ d : a \in Optional("message_1.json", MessageDocs),
                        b \in Optional("message_2.json", MessageDocs),
                        c \in Optional("message_10.json", MessageDocs),
                        d \in Optional("photos", {EmptyDict})}

InitMerge ==
    /\ pc = "merge_conversation"
    /\ arg = INBOX_DIR \o "/alice_1"
    /\ ret = Pending
    /\ \E files \in ConversationDirs : export = [dirs |-> [d \in {arg} |-> files]]
    /\ images = EmptyDict
    /\ log = <<>>
    /\ message_dirs = <<arg>> /\ dir_i = 1
    /\ json_files = <<>> /\ file_i = 1
    /\ merged_data = EmptyDict
    /\ all_message_photos = <<>> /\ album_photos = <<>>
    /\ uncategorized_photos = <<>> /\ posts_photos = <<>>
    /\ all_photos = <<>> /\ photo_i = 1

NextMerge == ListConversation \/ LoadConversationFile

SpecMerge == InitMerge /\ [][NextMerge]_vars

---------------------------------------------------------------------------
(* A run of main on an export.                                             *)

ConversationA ==
    "message_1.json" :> [participants |-> "alice",
                         messages |-> <<TextMessage, PhotoMessage>>]
ConversationB ==
    ("message_1.json" :> [participants |-> "bob",
                          messages |-> <<[photos |-> <<PhotoB, PhotoC>>]>>])
        @@ ("message_2.json" :> [participants |-> "bob",
                                 messages |-> <<TextMessage, PhotoMessage>>])
        @@ ("photos" :> EmptyDict)
\* a conversation whose second file has no "messages"
ConversationBad ==
    ("message_1.json" :> [participants |-> "alice", messages |-> <<PhotoMessage>>])
        @@ ("message_2.json" :> [participants |-> "alice"])

MessageTrees ==
    {a @@ b @@ c :
        a \in Optional(INBOX_DIR \o "/alice_1", {ConversationA, ConversationBad}),
        b \in Optional(INBOX_DIR \o "/bob_2", {ConversationB}),
        c \in Optional(ARCHIVED_DIR \o "/carol_3", {ConversationA})}

PhotoTaken ==
    [uri |-> "photos/c.jpg", creation_timestamp |-> 1000,
     media_metadata |-> [photo_metadata |-> [exif_data |-> <<[taken_timestamp |-> 2000]>>]]]

Albums ==
    { EmptyDict,
      ("0.json" :> [name |-> "album", photos |-> <<PhotoA>>])
          @@ ("1.json" :> [name |-> "album", photos |-> <<PhotoTaken>>]),
      "0.json" :> [name |-> "album"] }

UncategorizedFiles ==
    { EmptyDict,
      [json |-> [other_photos_v2 |-> <<>>]],
      [json |-> [other_photos_v2 |-> <<PhotoB, PhotoA>>]] }

PostsFiles ==
    { [json |-> <<>>],
      [json |-> <<[title |-> "text only"],
                  [attachments |-> <<[data |-> <<EmptyDict, [media |-> PhotoC]>>]>>]>>],
      [json |-> <<[attachments |-> <<>>]>>] }

ImageTrees ==
    [{URI_ROOT \o "photos/a.jpg", URI_ROOT \o "photos/c.jpg"}
        -> [status : {"ok", "readonly", "corrupt"}, exif : {[ISOSpeedRatings |-> "100"]}]
           \cup {MissingFile}]

Init ==
    /\ pc = "get_all_message_dirs"
    /\ arg = URI_ROOT
    /\ ret = Pending
    /\ export \in [dirs : MessageTrees, album : Albums,
                   uncategorized : UncategorizedFiles, posts : PostsFiles,
                   images : ImageTrees]
    /\ images = export.images
    /\ log = <<>>
    /\ NoLocals

Next ==
    \/ GetAllMessageDirs
    \/ ListConversation
    \/ LoadConversationFile
    \/ ExtractConversation
    \/ ListAlbum
    \/ LoadAlbumFile
    \/ ReadUncategorized
    \/ ReadPosts
    \/ WritePhoto

Spec == Init /\ [][Next]_vars

---------------------------------------------------------------------------
(* Claims about merge_conversation, under SpecMerge.                       *)

\* the message files of the directory, in the order Python's sort gives
\* the three names
FragmentOrder(files) ==
    LET Present(name) == name \in DOMAIN files
    IN  SelectSeq(<<"message_1.json", "message_10.json", "message_2.json">>,
                  Present)

\* C5: for a directory whose message files (at least one) all hold
\* "messages", the merge returns a document whose "messages" is the
\* concatenation of the files' lists in sorted name order and whose other
\* fields are those of the first file; a single file is returned unchanged.
C5_MergeConcatenates ==
    LET files == export.dirs[arg]
        order == FragmentOrder(files)
    IN  /\ (pc \in {"extract_photos_from_messages", "aborted"} /\ Len(order) > 0
              /\ \A i \in 1..Len(order) : "messages" \in DOMAIN files[order[i]])
           => /\ pc = "extract_photos_from_messages"
              /\ merged_data["messages"]
                     = Flatten([i \in 1..Len(order) |-> files[order[i]]["messages"]])
              /\ DOMAIN merged_data = DOMAIN files[order[1]]
              /\ \A k \in DOMAIN merged_data \ {"messages"} :
                     merged_data[k] = files[order[1]][k]
        /\ (pc \in {"extract_photos_from_messages", "aborted"} /\ Len(order) = 1)
           => (pc = "extract_photos_from_messages" /\ merged_data = files[order[1]])

\* C5's case: three files merged, message_10.json between message_1.json
\* and message_2.json, with different messages and titles.
C5_Witness ==
    LET files == export.dirs[arg]
    IN  /\ pc = "extract_photos_from_messages"
        /\ Len(FragmentOrder(files)) = 3
        /\ \A n \in DOMAIN files \ {"photos"} : "messages" \in DOMAIN files[n]
        /\ "photos" \in DOMAIN files
        /\ files["message_1.json"]["messages"] = <<TextMessage>>
        /\ files["message_10.json"]["messages"] = <<PhotoMessage, TextMessage>>
        /\ files["message_2.json"]["messages"] = <<PhotoMessage>>
        /\ "title" \in DOMAIN files["message_1.json"]
        /\ "title" \notin DOMAIN files["message_2.json"]
        /\ Len(merged_data["messages"]) = 4

---------------------------------------------------------------------------
(* Claims about main, under Spec.                                          *)

IsCall(e) == e.op = "modify_date_taken"
IsCollect(e) == e.op \in {"listdir", "json.load"}

\* the calls of modify_date_taken so far, in order
Calls == SelectSeq(log, IsCall)

\* the records main extracted, in the order of its four sources
Extracted ==
    all_message_photos \o album_photos \o uncategorized_photos \o posts_photos

\* the epoch seconds of a UTC datetime
ToEpoch(d) ==
    LET y == IF d.month <= 2 THEN d.year - 1 ELSE d.year
        era == y \div 400
        yoe == y - era * 400
        doy == (153 * (IF d.month > 2 THEN d.month - 3 ELSE d.month + 9) + 2) \div 5
                   + d.day - 1
        doe == yoe * 365 + yoe \div 4 - yoe \div 100 + doy
    IN  (era * 146097 + doe - 719468) * 86400
            + d.hour * 3600 + d.minute * 60 + d.second

\* C8: a failure is the last thing a run does: nothing is logged after the
\* exception, the run is aborted with it, and no step follows.
C8_FailFast ==
    /\ \A i \in 1..Len(log) :
           log[i].op = "raise" => (i = Len(log) /\ pc = "aborted")
    /\ pc = "aborted"
           => /\ ~ENABLED Next
              /\ ret.exc \notin {"None", "pending"}
              /\ log[Len(log)] = [op |-> "raise", exc |-> ret.exc]

\* C8's case: a write fails on a file piexif cannot decode, after an
\* earlier record was written and with records left.
C8_Witness ==
    /\ pc = "aborted"
    /\ ret.exc = "InvalidImageDataError"
    /\ 1 < photo_i /\ photo_i < Len(all_photos)
    /\ \E p \in DOMAIN images : images[p] # export.images[p]

\* C9 as stated: no directory is listed after a JSON document was parsed,
\* and nothing is listed or parsed after a call of modify_date_taken.
C9_PhasesStrict ==
    \A i, j \in 1..Len(log) :
        i < j => /\ ~(log[i].op = "json.load" /\ log[j].op = "listdir")
                 /\ ~(IsCall(log[i]) /\ IsCollect(log[j]))

\* C9, amended: the two message collections are listed before any JSON
\* document is parsed; every listing, parse and extraction precedes the
\* first call of modify_date_taken, the records being complete by then; and
\* while no call was made every image file is as it was.
C9_CollectBeforeWrite ==
    /\ \A i, j \in 1..Len(log) :
           i < j => /\ ~(IsCall(log[i]) /\ IsCollect(log[j]))
                    /\ ~(/\ log[i].op = "json.load"
                         /\ log[j].op = "listdir"
                         /\ log[j].path \in {INBOX_DIR, ARCHIVED_DIR})
    /\ Len(Calls) > 0
           => /\ pc \in {"write", "done", "aborted"}
              /\ all_photos = Extracted
    /\ Len(Calls) = 0 => images = export.images

\* C9's case: a conversation directory is listed after a message file was
\* parsed, then an extraction fails; no call was made and the JPEG files,
\* which could be written, are untouched.
C9_Witness ==
    /\ pc = "aborted"
    /\ ret.exc \in {"KeyError", "IndexError"}
    /\ Len(Calls) = 0
    /\ \E i, j \in 1..Len(log) :
           i < j /\ log[i].op = "json.load" /\ log[j].op = "listdir"
    /\ Len(all_message_photos) > 0
    /\ \A p \in DOMAIN images : images[p].status = "ok"
    /\ images = export.images

\* C10: when main completes, the calls of modify_date_taken are, in order,
\* one per extracted record (message, album, uncategorized, post records),
\* each with URI_ROOT + uri and the datetime of the record's timestamp.
C10_OneCallPerRecord ==
    pc = "done" =>
        /\ Len(Calls) = Len(Extracted)
        /\ \A i \in 1..Len(Calls) :
               /\ Calls[i].path = URI_ROOT \o Extracted[i].uri
               /\ ToEpoch(Calls[i].new_date) = Extracted[i].timestamp

\* C10's case: a completed run with records from all four sources, one
\* photo among them in several sources, and a file that is not a .jpg.
C10_Witness ==
    /\ pc = "done"
    /\ Len(all_message_photos) > 0 /\ Len(album_photos) > 0
    /\ Len(uncategorized_photos) > 0 /\ Len(posts_photos) > 0
    /\ \E i, j \in 1..Len(Calls) : i # j /\ Calls[i].path = Calls[j].path
    /\ \E i \in 1..Len(Calls) : Calls[i].path = URI_ROOT \o "photos/b.png"
    /\ Len(Calls) = Len(Extracted)

============================================================================
